---- MODULE Spec2Model ----
(***************************************************************************)
(* Harness orchestration core of terraform-provider-imagetest:             *)
(*   HarnessResource.ModifyPlan / ShouldSkip   (harness_resource.go)       *)
(*   HarnessK3sResource.Create / Read /        (harness_k3s_resource.go)   *)
(*     Update / Delete                                                     *)
(* together with the process-wide Inventory and Runtime Registry they use. *)
(***************************************************************************)
EXTENDS Integers, Sequences, FiniteSets, TLC

\* ------------------------------------------------------------------ bounds
MaxPlans == 2          \* completed AddHarness calls per resource instance
MaxFeatures == 1       \* features registered per harness (lifecycle runs)
MaxSetupMinutes == 6   \* longest Setup duration considered, in minutes
MaxSkipFeatures == 2   \* features per harness (skip-policy runs)

\* ------------------------------------------------------- program constants
defaultHarnessK3sCreateTimeout == 5    \* minutes

\* ------------------------------------------------------------ value domains
Resources == {"r1", "r2"}     \* harness resource instances of one process run
Names == {"k3s", "kind"}
Seeds == {"s1", "s2"}
LabelKeys == {"env", "tier"}
LabelVals == {"dev", "prod"}
RegistryNames == {"a", "b"}

\* types.String null, nil pointers / nil maps, absent prior state
NullStr == "<null>"
Nil == [nil |-> TRUE]

\* types.String.ValueString(): the null string reads as ""
ValueString(s) == IF s = NullStr THEN "" ELSE s

\* Go map[string]T as a function on a finite set of keys
EmptyMap == [k \in {} |-> NullStr]
MapsOver(keys, vals) == UNION {[d -> vals] : d \in SUBSET keys}
Put(m, k, v) == [x \in DOMAIN m \cup {k} |-> IF x = k THEN v ELSE m[x]]

\* all orders in which a Go `range` may visit the keys of a map
RECURSIVE Orders(_)
Orders(S) ==
    IF S = {} THEN {<<>>}
    ELSE UNION {{<<k>> \o o : o \in Orders(S \ {k})} : k \in S}

Range(s) == {s[i] : i \in 1..Len(s)}

\* ------------------------------------------------------ ShouldSkip (pure part)
\* One pass of the inner loop `for pk, pv := range r.store.labels` over one
\* feature, in visiting order `order`: TRUE iff it reaches `skip = true; break`.
RECURSIVE LabelMismatchAbsentKey(_, _, _)
LabelMismatchAbsentKey(featLabels, labels, order) ==
    IF order = <<>> THEN FALSE
    ELSE IF Head(order) \notin DOMAIN featLabels
              \/ featLabels[Head(order)] # labels[Head(order)]
         THEN TRUE
         ELSE LabelMismatchAbsentKey(featLabels, labels, Tail(order))

RECURSIVE LabelMismatch(_, _, _)
LabelMismatch(featLabels, labels, order) ==
    IF order = <<>> THEN FALSE
    ELSE LET pk == Head(order)
             pv == labels[pk]
             ok == pk \in DOMAIN featLabels
         IN  IF ok /\ featLabels[pk] # pv
             THEN TRUE
             ELSE LabelMismatch(featLabels, labels, Tail(order))

\* The outer loop `for _, feat := range feats`; orders[i] is the order in which
\* the labels are visited for the i-th feature.  `skip` is only ever raised.
RECURSIVE SkipLoopLastWins(_, _, _, _)
SkipLoopLastWins(skip, feats, labels, orders) ==
    IF feats = <<>> THEN skip
    ELSE SkipLoopLastWins(LabelMismatch(Head(feats).Labels, labels, Head(orders)),
                          Tail(feats), labels, Tail(orders))

RECURSIVE SkipLoop(_, _, _, _)
SkipLoop(skip, feats, labels, orders) ==
    IF feats = <<>> THEN skip
    ELSE SkipLoop(IF LabelMismatch(Head(feats).Labels, labels, Head(orders))
                  THEN TRUE ELSE skip,
                  Tail(feats), labels, Tail(orders))

\* Lines 120-135: the value ShouldSkip computes once the features are in hand.
SkipValueExactMatch(labels, feats, orders) ==
    \E i \in 1..Len(feats) : feats[i].Labels # labels

SkipValue(labels, feats, orders) ==
    IF Cardinality(DOMAIN labels) = 0
    THEN FALSE
    ELSE SkipLoop(FALSE, feats, labels, orders)

\* the visiting orders a run of the loops may take
LabelOrders(labels, feats) == [1..Len(feats) -> Orders(DOMAIN labels)]

\* ------------------------------------------------- Create: option assembly
\* name.ParseReference: the references the parser accepts
ValidRefs == {"cgr.dev/chainguard/k3s:latest", "cgr.dev/chainguard/kubectl:latest-dev"}
ParseReference(s) == [err |-> s \notin ValidRefs, ref |-> s]

\* filepath.Abs: an absolute path is returned as is, a relative one is joined
\* to the working directory, and fails when that cannot be determined
FilepathAbs(src, cwdOk) ==
    IF src.abs THEN [err |-> FALSE, path |-> src.path]
    ELSE IF cwdOk THEN [err |-> FALSE, path |-> "/cwd/" \o src.path]
    ELSE [err |-> TRUE, path |-> ""]

\* types.List / types.Map ElementsAs into Go strings: a null element cannot
\* be converted
ElementsAsNeverFails(elems) == FALSE

ElementsAsFails(elems) == \E i \in DOMAIN elems : elems[i] = NullStr

\* timeouts.Value.Create: the configured duration, or the default when it is
\* unset; an unparsable duration yields the default and an error diagnostic
DurationMinutes == [m2 \in {"2m"} |-> 2]
TimeoutsCreate(t, default) ==
    IF t = NullStr THEN [timeout |-> default, err |-> FALSE]
    ELSE IF t \in DOMAIN DurationMinutes
         THEN [timeout |-> DurationMinutes[t], err |-> FALSE]
         ELSE [timeout |-> default, err |-> TRUE]

\* Lines 286-289: the map the merge starts from (data.Registries itself when
\* it is not nil, a fresh map otherwise)
StartRegistries(dataRegistries) ==
    IF dataRegistries # Nil THEN dataRegistries ELSE EmptyMap

\* the provider-global k3s block, or Nil (lines 298-299)
ProviderK3s(prd) ==
    IF prd.Harnesses # Nil /\ prd.Harnesses.K3s # Nil THEN prd.Harnesses.K3s ELSE Nil

\* Lines 298-302: `registries[k] = v` for every provider-global entry
MergeRegistriesLocalWins(registries, prd) ==
    LET pc == ProviderK3s(prd)
    IN  IF pc = Nil THEN registries
        ELSE [k \in DOMAIN registries \cup DOMAIN pc.Registries |->
                 IF k \in DOMAIN registries THEN registries[k] ELSE pc.Registries[k]]

MergeRegistries(registries, prd) ==
    LET pc == ProviderK3s(prd)
    IN  IF pc = Nil THEN registries
        ELSE [k \in DOMAIN registries \cup DOMAIN pc.Registries |->
                 IF k \in DOMAIN pc.Registries THEN pc.Registries[k] ELSE registries[k]]

\* Lines 291-296: the resource-declared names, in the order `range` visits
\* data.Networks
ResourceNetworks(dataNetworks, order) ==
    IF dataNetworks # Nil
    THEN [i \in 1..Len(order) |-> ValueString(dataNetworks[order[i]].Name)]
    ELSE <<>>

\* Lines 304-306: every provider-global name appended, in declared order
RECURSIVE AppendNew(_, _)
AppendNew(networks, names) ==
    IF names = <<>> THEN networks
    ELSE AppendNew(IF Head(names) \in Range(networks) THEN networks
                   ELSE Append(networks, Head(names)),
                   Tail(names))

AssembleNetworksDedup(dataNetworks, order, prd) ==
    LET pc == ProviderK3s(prd)
        own == ResourceNetworks(dataNetworks, order)
    IN  IF pc = Nil THEN own
        ELSE AppendNew(own, [i \in 1..Len(pc.Networks) |-> ValueString(pc.Networks[i].Name)])

AssembleNetworks(dataNetworks, order, prd) ==
    LET pc == ProviderK3s(prd)
        own == ResourceNetworks(dataNetworks, order)
    IN  IF pc = Nil THEN own
        ELSE own \o [i \in 1..Len(pc.Networks) |-> ValueString(pc.Networks[i].Name)]

\* Lines 311-317: the auth option of one registry
AuthOptionAnyUnset(rname, rdata) ==
    IF rdata.Auth # Nil
    THEN IF rdata.Auth.Auth = NullStr \/ rdata.Auth.Password = NullStr
              \/ rdata.Auth.Username = NullStr
         THEN <<[opt |-> "WithAuthFromKeychain", registry |-> rname]>>
         ELSE <<[opt |-> "WithAuthFromStatic", registry |-> rname,
                 username |-> ValueString(rdata.Auth.Username),
                 password |-> ValueString(rdata.Auth.Password),
                 auth |-> ValueString(rdata.Auth.Auth)]>>
    ELSE <<>>

AuthOption(rname, rdata) ==
    IF rdata.Auth # Nil
    THEN IF rdata.Auth.Auth = NullStr /\ rdata.Auth.Password = NullStr
              /\ rdata.Auth.Username = NullStr
         THEN <<[opt |-> "WithAuthFromKeychain", registry |-> rname]>>
         ELSE <<[opt |-> "WithAuthFromStatic", registry |-> rname,
                 username |-> ValueString(rdata.Auth.Username),
                 password |-> ValueString(rdata.Auth.Password),
                 auth |-> ValueString(rdata.Auth.Auth)]>>
    ELSE <<>>

\* Lines 310-327: the loop over the merged registries in visiting order
\* `order`; it stops at the first mirror whose endpoints cannot be decoded
RECURSIVE RegistryLoop(_, _, _)
RegistryLoop(kopts, registries, order) ==
    IF order = <<>> THEN [err |-> FALSE, kopts |-> kopts]
    ELSE LET rname == Head(order)
             rdata == registries[rname]
             k1 == kopts \o AuthOption(rname, rdata)
         IN  IF rdata.Mirror # Nil
             THEN IF ElementsAsFails(rdata.Mirror.Endpoints)
                  THEN [err |-> TRUE, kopts |-> k1]
                  ELSE RegistryLoop(
                         Append(k1, [opt |-> "WithRegistryMirror", registry |-> rname,
                                     endpoints |-> rdata.Mirror.Endpoints]),
                         registries, Tail(order))
             ELSE RegistryLoop(k1, registries, Tail(order))

\* Lines 260-272: one bind mount per declared mount, or the first failure
RECURSIVE MountLoop(_, _, _)
MountLoop(kopts, mounts, cwdOk) ==
    IF mounts = <<>> THEN [err |-> FALSE, kopts |-> kopts]
    ELSE LET src == FilepathAbs(Head(mounts).Source, cwdOk)
         IN  IF src.err THEN [err |-> TRUE, kopts |-> kopts]
             ELSE MountLoop(
                    Append(kopts, [opt |-> "WithSandboxMounts", type |-> "bind",
                                   source |-> src.path,
                                   target |-> ValueString(Head(mounts).Destination)]),
                    Tail(mounts), cwdOk)

\* Lines 244-284: the sandbox options.  asFails: data.Sandbox.As reports an
\* error; order: the order `range` visits sandbox.Networks
SandboxOptions(kopts, sandbox, asFails, cwdOk, order) ==
    IF sandbox = Nil THEN [errors |-> {}, kopts |-> kopts]
    ELSE IF asFails THEN [errors |-> {"sandbox decode"}, kopts |-> kopts]
    ELSE LET img == ParseReference(ValueString(sandbox.Image))
             k1 == IF sandbox.Image # NullStr
                   THEN Append(kopts, [opt |-> "WithSandboxImageRef", ref |-> img.ref])
                   ELSE kopts
             ml == MountLoop(k1, sandbox.Mounts, cwdOk)
             k2 == ml.kopts \o
                   [i \in 1..Len(order) |->
                      [opt |-> "WithSandboxNetworks",
                       name |-> ValueString(sandbox.Networks[order[i]].Name)]]
         IN  IF sandbox.Image # NullStr /\ img.err
             THEN [errors |-> {"invalid resource input"}, kopts |-> kopts]
             ELSE IF ml.err
             THEN [errors |-> {"invalid resource input"}, kopts |-> ml.kopts]
             ELSE IF ElementsAsFails(sandbox.Envs)
             THEN [errors |-> {"invalid resource input"}, kopts |-> k2]
             ELSE [errors |-> {},
                   kopts |-> Append(k2, [opt |-> "WithSandboxEnv", envs |-> sandbox.Envs])]

\* The external calls of one Create evaluation that may report an error
Faults == {"none", "planGet", "configInventory", "planId", "getFeatures",
           "sandboxAs", "getwd", "k3sNew"}

\* Lines 98-144: ShouldSkip against the features `got` returned by
\* GetFeatures; its diagnostics and its result
ShouldSkip(id, labels, got, fault, orders) ==
    IF fault \in {"configInventory", "planId"}
    THEN [skip |-> FALSE, errors |-> {"failed to add harness"}, warnings |-> {}]
    ELSE IF fault = "getFeatures"
    THEN [skip |-> FALSE, errors |-> {"failed to get features from harness"},
          warnings |-> {}]
    ELSE LET skip == SkipValue(labels, got, orders)
         IN  [skip |-> skip, errors |-> {},
              warnings |-> IF skip THEN {"skipping harness [" \o id \o "] creation"}
                           ELSE {}]

\* The resource data model decoded from the plan (line 207); Skipped is
\* unknown in the plan and is written at line 216
PlanData(c, id) ==
    [Id |-> id, Name |-> c.Name, Inventory |-> c.Inventory, Skipped |-> FALSE,
     Image |-> c.Image, DisableCni |-> c.DisableCni,
     DisableTraefik |-> c.DisableTraefik,
     DisableMetricsServer |-> c.DisableMetricsServer,
     Registries |-> c.Registries, Networks |-> c.Networks,
     Sandbox |-> c.Sandbox, Timeouts |-> c.Timeouts]

\* Line 218: `if data.Skipped.ValueBool()` -- the skipped harness returns early
SkipBranchNever(data) == FALSE

SkipBranch(data) == data.Skipped

\* Lines 212-215: `if resp.Diagnostics.HasError() { return }` after ShouldSkip
HasErrorNever(errors) == FALSE

HasError(errors) == errors # {}

\* the keys a `range` over map m visits (none for a nil map)
KeysOf(m) == IF m = Nil THEN {} ELSE DOMAIN m

\* Lines 203-336: one Create evaluation up to the point where Setup is
\* invoked.  c: the planned configuration, id: the planned identifier, got:
\* what GetFeatures returns, in: the outcomes of the external calls and the
\* visiting orders of the `range` loops.
CreateEval(r, c, id, got, lbls, prd, in) ==
    LET data0 == PlanData(c, id)
        ss == ShouldSkip(id, lbls, got, in.fault, in.labelOrders)
        data1 == [data0 EXCEPT !.Skipped = ss.skip]
        tc == TimeoutsCreate(data1.Timeouts, defaultHarnessK3sCreateTimeout)
        \* resp.Diagnostics accumulates: what ShouldSkip added stays in it
        errsT == ss.errors \cup (IF tc.err THEN {"invalid timeout"} ELSE {})
        k0 == <<[opt |-> "WithCniDisabled", on |-> data1.DisableCni],
                [opt |-> "WithTraefikDisabled", on |-> data1.DisableTraefik],
                [opt |-> "WithMetricsServerDisabled", on |-> data1.DisableMetricsServer]>>
        img == ParseReference(ValueString(data1.Image))
        k1 == IF data1.Image # NullStr
              THEN Append(k0, [opt |-> "WithImageRef", ref |-> img.ref])
              ELSE k0
        sb == SandboxOptions(k1, data1.Sandbox, in.fault = "sandboxAs",
                             in.fault # "getwd", in.sandboxNetOrder)
        registries == MergeRegistries(StartRegistries(data1.Registries), prd)
        \* registries aliases data.Registries when that is not nil
        data2 == [data1 EXCEPT !.Registries =
                     IF data1.Registries # Nil THEN registries ELSE Nil]
        networks == AssembleNetworks(data1.Networks, in.netOrder, prd)
        rl == RegistryLoop(sb.kopts, registries, in.regOrder)
        kopts == Append(rl.kopts, [opt |-> "WithNetworks", networks |-> networks])
        harness == [id |-> ValueString(id), owner |-> r, kopts |-> kopts]
        return(errors, warnings, persisted, data) ==
            [errors |-> errors, warnings |-> warnings, persisted |-> persisted,
             data |-> data, proceed |-> FALSE, harness |-> Nil,
             timeout |-> tc.timeout, registries |-> EmptyMap, networks |-> <<>>]
    IN  IF in.fault = "planGet" THEN return({"plan decode"}, {}, FALSE, data0)
        ELSE IF HasError(ss.errors) THEN return(ss.errors, ss.warnings, FALSE, data0)
        ELSE IF SkipBranch(data1)
        THEN return(ss.errors, ss.warnings, TRUE, data1)
        ELSE IF data1.Image # NullStr /\ img.err
        THEN return(errsT \cup {"invalid resource input"}, {}, FALSE, data1)
        ELSE IF sb.errors # {}
        THEN return(errsT \cup sb.errors, {}, FALSE, data1)
        ELSE IF rl.err
        THEN return(errsT \cup {"failed to convert mirror endpoints"}, {}, FALSE, data2)
        ELSE IF in.fault = "k3sNew"
        THEN return(errsT \cup {"failed to initialize k3s harness"}, {}, FALSE, data2)
        ELSE [errors |-> errsT, warnings |-> {}, persisted |-> FALSE,
              data |-> data2, proceed |-> TRUE, harness |-> harness,
              timeout |-> tc.timeout, registries |-> registries,
              networks |-> networks]

\* ------------------------------------------- Inventory, Encoder, Registry
\* ProviderStore.Encode: a deterministic short token per seed
EncodeTable == [s \in Seeds |-> IF s = "s1" THEN "e1" ELSE "e2"]
Encode(seed) == EncodeTable[seed]

\* fmt.Sprintf("%s-%s", name, invEnc), line 80
HarnessIdNameOnly(name, invEnc) == name

HarnessId(name, invEnc) == name \o "-" \o invEnc

\* Inventory.AddHarness: atomic check-and-insert into the inventory of `seed`
AddHarnessAlwaysAdded(inv, seed, id, storeErr) ==
    IF storeErr THEN [added |-> FALSE, err |-> TRUE, inventory |-> inv]
    ELSE [added |-> TRUE, err |-> FALSE,
          inventory |-> [inv EXCEPT ![seed] =
                            IF id \in DOMAIN inv[seed] THEN inv[seed]
                            ELSE Put(inv[seed], id, <<>>)]]

AddHarnessResets(inv, seed, id, storeErr) ==
    IF storeErr THEN [added |-> FALSE, err |-> TRUE, inventory |-> inv]
    ELSE [added |-> id \notin DOMAIN inv[seed], err |-> FALSE,
          inventory |-> [inv EXCEPT ![seed] = Put(inv[seed], id, <<>>)]]

AddHarness(inv, seed, id, storeErr) ==
    IF storeErr THEN [added |-> FALSE, err |-> TRUE, inventory |-> inv]
    ELSE IF id \in DOMAIN inv[seed]
    THEN [added |-> FALSE, err |-> FALSE, inventory |-> inv]
    ELSE [added |-> TRUE, err |-> FALSE,
          inventory |-> [inv EXCEPT ![seed] = Put(inv[seed], id, <<>>)]]

\* Inventory.GetFeatures: the features registered against the harness, empty
\* when there are none
GetFeatures(inv, seed, id) ==
    IF id \in DOMAIN inv[seed] THEN inv[seed][id] ELSE <<>>

\* Runtime Registry (r.store.harnesses): Set and Get
RegistrySetKeepFirst(reg, id, h) ==
    IF id \in DOMAIN reg THEN reg ELSE Put(reg, id, h)

RegistrySet(reg, id, h) == Put(reg, id, h)

RegistryGet(reg, id) ==
    IF id \in DOMAIN reg THEN [ok |-> TRUE, harness |-> reg[id]]
    ELSE [ok |-> FALSE, harness |-> Nil]

\* ------------------------------------------------------------------- state
VARIABLES
    cfg,        \* per resource: the declared configuration (req.Config / req.Plan)
    labels,     \* r.store.labels: the runtime label filter
    provider,   \* r.store.providerResourceData
    inventory,  \* per seed: harness id -> features registered against it
    harnesses,  \* r.store.harnesses: harness id -> orchestration handle
    planned,    \* per resource: the id attribute of its latest creation plan
    planDiags,  \* per resource: error diagnostics of the last ModifyPlan
    adds,       \* per resource: how often AddHarness reported added / not added
    state,      \* per resource: the persisted state (Nil when there is none)
    pc,         \* per resource: position of its Create evaluation
    frame,      \* per resource: locals of the Create evaluation blocked in Setup
    diags,      \* per resource: diagnostics of the Create response
    setups,     \* handles on which Setup has been invoked
    lifecycle   \* per resource: the handlers that have run on its prior state
                \* an odd number of times (it changes at every such call)

vars == <<cfg, labels, provider, inventory, harnesses, planned, planDiags, adds,
          state, pc, frame, diags, setups, lifecycle>>

NoDiags == [errors |-> {}, warnings |-> {}]

\* ----------------------------------------------------------- configurations
NullAuth == [Username |-> NullStr, Password |-> NullStr, Auth |-> NullStr]
AuthVals == {Nil, NullAuth,
             [Username |-> "u", Password |-> "p", Auth |-> NullStr],
             [Username |-> NullStr, Password |-> NullStr, Auth |-> "tok"]}
GoodMirror == [Endpoints |-> <<"m1", "m2">>]
BadMirror == [Endpoints |-> <<"m1", NullStr>>]

BaseConfig ==
    [Name |-> "k3s", Inventory |-> [Seed |-> "s1"], Image |-> NullStr,
     DisableCni |-> FALSE, DisableTraefik |-> TRUE, DisableMetricsServer |-> TRUE,
     Registries |-> Nil, Networks |-> Nil, Sandbox |-> Nil, Timeouts |-> NullStr]

BaseSandbox ==
    [Image |-> "cgr.dev/chainguard/kubectl:latest-dev",
     Mounts |-> <<[Source |-> [abs |-> FALSE, path |-> "work"],
                   Destination |-> "/work"]>>,
     Networks |-> [x \in {"x"} |-> [Name |-> "n1"]],
     Envs |-> [e \in {"E"} |-> "1"]]

NoProvider == [Harnesses |-> Nil]

\* the configurations of the lifecycle runs
Profiles ==
    {[BaseConfig EXCEPT !.Registries = [k \in {"a"} |-> [Auth |-> NullAuth, Mirror |-> Nil]],
                        !.Networks = [k \in {"x"} |-> [Name |-> "n1"]]],
     [BaseConfig EXCEPT !.Image = "not a reference"],
     [BaseConfig EXCEPT !.Sandbox = BaseSandbox, !.Timeouts = "2m"],
     [BaseConfig EXCEPT !.Timeouts = "soon"]}

MainConfigs ==
    {[p EXCEPT !.Name = n, !.Inventory = [Seed |-> s]] :
        p \in Profiles, n \in Names, s \in Seeds}

MainProvider ==
    [Harnesses |-> [K3s |->
        [Registries |-> [k \in {"a"} |-> [Auth |-> Nil, Mirror |-> GoodMirror]],
         Networks |-> <<[Name |-> "n1"]>>]]]

MainLabels == {EmptyMap, [k \in {"env"} |-> "prod"]}
MainFeatures == {[Labels |-> [k \in {"env"} |-> "dev"]]}

\* Every variable at process start, given the configuration and the
\* provider-level inputs
Start(c, l, p) ==
    /\ cfg = c
    /\ labels = l
    /\ provider = p
    /\ inventory = [s \in Seeds |-> EmptyMap]
    /\ harnesses = EmptyMap
    /\ planned = [r \in Resources |-> NullStr]
    /\ planDiags = [r \in Resources |-> {}]
    /\ adds = [r \in Resources |-> [added |-> 0, present |-> 0]]
    /\ state = [r \in Resources |-> Nil]
    /\ pc = [r \in Resources |-> "idle"]
    /\ frame = [r \in Resources |-> Nil]
    /\ diags = [r \in Resources |-> NoDiags]
    /\ setups = {}
    /\ lifecycle = [r \in Resources |-> {}]

\* r1 is the harness k3s of inventory s1 under any profile; r2 is a second
\* instance that shares the name, the inventory or both with r1 (so it may or
\* may not denote the same harness)
\* The runtime label filter is not empty, so that a harness is skipped or not
\* according to the features registered (the empty filter: SpecSkip)
ValidProfile == CHOOSE p \in Profiles : p.Registries # Nil

Init ==
    \E c \in [Resources -> MainConfigs], l \in MainLabels \ {EmptyMap} :
        /\ c["r1"].Name = "k3s"
        /\ c["r1"].Inventory.Seed = "s1"
        /\ c["r2"].Name = "k3s" \/ c["r2"].Inventory.Seed = "s1"
        /\ c["r2"] = [ValidProfile EXCEPT !.Name = c["r2"].Name,
                                          !.Inventory = c["r2"].Inventory]
        /\ Start(c, l, MainProvider)

\* ------------------------------------------------------------------ actions
PlanFaults == {"none", "configInventory", "configName", "encode", "planSet",
               "addHarness"}

\* a call of handler h is recorded in the history of the resource
Toggle(S, h) == IF h \in S THEN S \ {h} ELSE S \cup {h}

\* The error ModifyPlan reports when a call before AddHarness fails (lines
\* 58-86): it returns at once, and the id of the plan stays unset
PlanErrors ==
    [f \in {"configInventory", "configName", "encode", "planSet"} |->
        CASE f = "configInventory" -> "failed to add harness: retrieving inventory"
          [] f = "configName" -> "failed to add harness: getting harness name"
          [] f = "encode" -> "failed to add harness: encoding harness id"
          [] f = "planSet" -> "failed to set harness id"]

\* Lines 88-91: the error reported when AddHarness itself fails
AddHarnessError == "failed to add harness: backing store"

\* Line 51: `!req.State.Raw.IsNull()` -- the resource already has a state
HasPriorStateNever(st) == FALSE

HasPriorState(st) == st # Nil

\* HarnessResource.ModifyPlan (lines 48-96) for resource r
ModifyPlan(r) ==
    /\ pc[r] = "idle" \/ state[r] # Nil
    /\ \E fault \in PlanFaults :
        LET c == cfg[r]
            seed == c.Inventory.Seed
            id == HarnessId(c.Name, Encode(seed))
            res == AddHarness(inventory, seed, id, fault = "addHarness")
        IN  IF HasPriorState(state[r])
            THEN /\ planDiags' = [planDiags EXCEPT ![r] = {}]
                 /\ lifecycle' = [lifecycle EXCEPT ![r] = Toggle(@, "ModifyPlan")]
                 /\ UNCHANGED <<planned, inventory, adds>>
            ELSE IF fault \in DOMAIN PlanErrors
            THEN /\ planDiags' = [planDiags EXCEPT ![r] = {PlanErrors[fault]}]
                 /\ planned' = [planned EXCEPT ![r] = NullStr]
                 /\ UNCHANGED <<inventory, adds, lifecycle>>
            ELSE /\ adds[r].added + adds[r].present < MaxPlans
                 /\ UNCHANGED lifecycle
                 /\ planned' = [planned EXCEPT ![r] = id]
                 /\ planDiags' = [planDiags EXCEPT ![r] =
                                    IF res.err THEN {AddHarnessError} ELSE {}]
                 /\ inventory' = res.inventory
                 /\ adds' = [adds EXCEPT ![r] =
                               IF res.err THEN @
                               ELSE IF res.added THEN [@ EXCEPT !.added = @ + 1]
                               ELSE [@ EXCEPT !.present = @ + 1]]
    /\ UNCHANGED <<cfg, labels, provider, harnesses, state, pc, frame, diags, setups>>

\* A feature resource registers a feature against a harness of an inventory
AddFeature(seed, id, f) ==
    /\ id \in DOMAIN inventory[seed]
    /\ Len(inventory[seed][id]) < MaxFeatures
    /\ inventory' = [inventory EXCEPT ![seed][id] = Append(@, f)]
    /\ UNCHANGED <<cfg, labels, provider, harnesses, planned, planDiags, adds,
                   state, pc, frame, diags, setups, lifecycle>>

\* Line 336: r.store.harnesses.Set(data.Id.ValueString(), harness), the step
\* between the construction of the handle and the call of Setup
StoreHandleSkipped(reg, h) == reg

StoreHandleByOwner(reg, h) == RegistrySet(reg, h.owner, h)

StoreHandle(reg, h) == RegistrySet(reg, h.id, h)

\* HarnessK3sResource.Create (lines 203-336) for resource r, up to the call
\* of Setup: the framework calls it with the plan ModifyPlan produced
Create(r) ==
    /\ pc[r] = "idle"
    /\ state[r] = Nil
    /\ planned[r] # NullStr
    /\ planDiags[r] = {}
    /\ LET c == cfg[r]
           got == GetFeatures(inventory, c.Inventory.Seed, planned[r])
           merged == MergeRegistries(StartRegistries(c.Registries), provider)
       IN  \E fault \in Faults,
              lo \in LabelOrders(labels, got),
              no \in Orders(KeysOf(c.Networks)),
              so \in Orders(IF c.Sandbox = Nil THEN {} ELSE KeysOf(c.Sandbox.Networks)),
              ro \in Orders(DOMAIN merged) :
            LET ev == CreateEval(r, c, planned[r], got, labels, provider,
                                 [fault |-> fault, labelOrders |-> lo, netOrder |-> no,
                                  sandboxNetOrder |-> so, regOrder |-> ro])
            IN  /\ diags' = [diags EXCEPT ![r] =
                               [errors |-> ev.errors, warnings |-> ev.warnings]]
                /\ state' = [state EXCEPT ![r] = IF ev.persisted THEN ev.data ELSE @]
                /\ IF ev.proceed
                   THEN /\ harnesses' = StoreHandle(harnesses, ev.harness)
                        /\ frame' = [frame EXCEPT ![r] =
                                       [data |-> ev.data, timeout |-> ev.timeout,
                                        registries |-> ev.registries,
                                        networks |-> ev.networks,
                                        harness |-> ev.harness, setup |-> "pending"]]
                        /\ pc' = [pc EXCEPT ![r] = "stored"]
                   ELSE /\ pc' = [pc EXCEPT ![r] = "done"]
                        /\ UNCHANGED <<harnesses, frame>>
    /\ UNCHANGED <<cfg, labels, provider, inventory, planned, planDiags, adds, setups,
                   lifecycle>>

\* Line 342: harness.Setup()(ctx) is invoked on the stored handle
InvokeSetup(r) ==
    /\ pc[r] = "stored"
    /\ setups' = setups \cup {frame[r].harness}
    /\ pc' = [pc EXCEPT ![r] = "setup"]
    /\ UNCHANGED <<cfg, labels, provider, inventory, harnesses, planned, planDiags,
                   adds, state, frame, diags, lifecycle>>

\* Lines 342-345: the error Create reports when Setup returns one, whether
\* the deadline of the context expired or the setup itself failed
SetupErrorsIgnoreDeadline(expired, fails) ==
    IF fails THEN {"failed to setup harness: setup error"} ELSE {}

SetupErrors(expired, fails) ==
    IF expired THEN {"failed to setup harness: context deadline exceeded"}
    ELSE IF fails THEN {"failed to setup harness: setup error"}
    ELSE {}

\* Lines 342-348: Setup takes `dur` minutes unless the deadline of the context
\* (line 226) expires first; on success the data is saved into the state
SetupReturn(r) ==
    /\ pc[r] = "setup"
    /\ \E dur \in 1..MaxSetupMinutes, fails \in BOOLEAN :
        LET f == frame[r]
            expired == dur > f.timeout
            errs == SetupErrors(expired, fails)
        IN  /\ diags' = [diags EXCEPT ![r].errors = @ \cup errs]
            /\ state' = [state EXCEPT ![r] = IF errs = {} THEN f.data ELSE @]
            /\ frame' = [frame EXCEPT ![r].setup =
                           IF expired THEN "expired" ELSE IF fails THEN "failed" ELSE "ok"]
    /\ pc' = [pc EXCEPT ![r] = "done"]
    /\ UNCHANGED <<cfg, labels, provider, inventory, harnesses, planned, planDiags,
                   adds, setups, lifecycle>>

\* types.String unknown: a computed attribute the plan has no value for
UnknownStr == "<unknown>"

\* The plan the framework hands to Update for configuration c: id and skipped
\* are Computed without a plan modifier (part_000:150-153, 169-172) and
\* ModifyPlan returns at line 55 when there is a prior state, so nothing gives
\* them a value and they are unknown (the flag reads false)
UpdatePlan(c) == PlanData(c, UnknownStr)

\* an in-place change of the declared configuration
UpdatedConfigs(c) == {[c EXCEPT !.DisableCni = ~c.DisableCni]}

\* HarnessK3sResource.Read (lines 351-363): the prior state is decoded and
\* written back; when the decoding fails the state is left as it was
Read(r) ==
    /\ pc[r] = "done"
    /\ state[r] # Nil
    /\ \E fails \in BOOLEAN :
          LET data == state[r]
          IN  state' = [state EXCEPT ![r] = IF fails THEN @ ELSE data]
    /\ lifecycle' = [lifecycle EXCEPT ![r] = Toggle(@, "Read")]
    /\ UNCHANGED <<cfg, labels, provider, inventory, harnesses, planned, planDiags,
                   adds, pc, frame, diags, setups>>

\* HarnessK3sResource.Update (lines 365-377) after the configuration changed:
\* the plan is decoded and written into the state
Update(r) ==
    /\ pc[r] = "done"
    /\ state[r] # Nil
    /\ \E c \in UpdatedConfigs(cfg[r]), fails \in BOOLEAN :
          /\ cfg' = [cfg EXCEPT ![r] = c]
          /\ LET data == UpdatePlan(c)
             IN  state' = [state EXCEPT ![r] = IF fails THEN @ ELSE data]
    /\ lifecycle' = [lifecycle EXCEPT ![r] = Toggle(@, "Update")]
    /\ UNCHANGED <<labels, provider, inventory, harnesses, planned, planDiags,
                   adds, pc, frame, diags, setups>>

\* HarnessK3sResource.Delete (lines 379-388): the prior state is decoded and
\* nothing else is done; the framework drops the state of a Delete that
\* reported no error
Delete(r) ==
    /\ pc[r] = "done"
    /\ state[r] # Nil
    /\ \E fails \in BOOLEAN :
          state' = [state EXCEPT ![r] = IF fails THEN @ ELSE Nil]
    /\ lifecycle' = [lifecycle EXCEPT ![r] = Toggle(@, "Delete")]
    /\ UNCHANGED <<cfg, labels, provider, inventory, harnesses, planned, planDiags,
                   adds, pc, frame, diags, setups>>

Next ==
    \/ \E r \in Resources : ModifyPlan(r)
    \/ \E s \in Seeds : \E id \in DOMAIN inventory[s], f \in MainFeatures :
          AddFeature(s, id, f)
    \/ \E r \in Resources : Create(r)
    \/ \E r \in Resources : InvokeSetup(r)
    \/ \E r \in Resources : SetupReturn(r)

Spec == Init /\ [][Next]_vars

\* --------------------------------------------- skip-policy runs (SpecSkip)
\* r1 has been planned and its harness carries any features; the runtime
\* label filter is any mapping over the label keys
AllFeatures == {[Labels |-> m] : m \in MapsOver(LabelKeys, LabelVals)}
FeatureLists == UNION {[1..n -> AllFeatures] : n \in 0..MaxSkipFeatures}

R1Id == HarnessId("k3s", Encode("s1"))

\* the state after ModifyPlan of r1 completed once under configuration c
PlannedR1(c, l, p, feats) ==
    /\ cfg = [r \in Resources |-> IF r = "r1" THEN c ELSE ValidProfile]
    /\ labels = l
    /\ provider = p
    /\ inventory = [s \in Seeds |-> IF s = "s1" THEN Put(EmptyMap, R1Id, feats)
                                    ELSE EmptyMap]
    /\ harnesses = EmptyMap
    /\ planned = [r \in Resources |-> IF r = "r1" THEN R1Id ELSE NullStr]
    /\ planDiags = [r \in Resources |-> {}]
    /\ adds = [r \in Resources |-> [added |-> IF r = "r1" THEN 1 ELSE 0, present |-> 0]]
    /\ state = [r \in Resources |-> Nil]
    /\ pc = [r \in Resources |-> "idle"]
    /\ frame = [r \in Resources |-> Nil]
    /\ diags = [r \in Resources |-> NoDiags]
    /\ setups = {}
    /\ lifecycle = [r \in Resources |-> {}]

SkipInit ==
    \E l \in MapsOver(LabelKeys, LabelVals), feats \in FeatureLists :
        PlannedR1(ValidProfile, l, MainProvider, feats)

CreateNext ==
    \/ \E r \in Resources : Create(r)
    \/ \E r \in Resources : InvokeSetup(r)
    \/ \E r \in Resources : SetupReturn(r)

SpecSkip == SkipInit /\ [][CreateNext]_vars

\* ------------------------------------------ option-assembly runs (SpecBuilder)
\* r1 has been planned with any resource-declared registries and networks,
\* under any provider-global k3s block
ResRegVals == {[Auth |-> a, Mirror |-> Nil] : a \in AuthVals \ {Nil}}
              \cup {[Auth |-> Nil, Mirror |-> BadMirror]}
ProvRegVals == {[Auth |-> Nil, Mirror |-> GoodMirror],
                [Auth |-> [Username |-> "gu", Password |-> NullStr, Auth |-> NullStr],
                 Mirror |-> Nil]}
ResRegistries == {Nil} \cup MapsOver(RegistryNames, ResRegVals)
ResNetworks == {Nil,
                [k \in {"x"} |-> [Name |-> "n1"]],
                [k \in {"x", "y"} |-> [Name |-> IF k = "x" THEN "n1" ELSE "n3"]]}
Providers ==
    {NoProvider, [Harnesses |-> [K3s |-> Nil]]}
    \cup {[Harnesses |-> [K3s |-> [Registries |-> m, Networks |-> n]]] :
            m \in MapsOver(RegistryNames, ProvRegVals),
            n \in {<<>>, <<[Name |-> "n1"]>>, <<[Name |-> "n2"], [Name |-> "n1"]>>}}

BuilderInit ==
    \E rr \in ResRegistries, rn \in ResNetworks, p \in Providers :
        PlannedR1([BaseConfig EXCEPT !.Registries = rr, !.Networks = rn],
                  EmptyMap, p, <<>>)

SpecBuilder == BuilderInit /\ [][CreateNext]_vars

\* ------------------------------------------------------------------ claims
\* what GetFeatures returns for the harness of resource r
Feats(r) == GetFeatures(inventory, cfg[r].Inventory.Seed, planned[r])

\* feature f carries a key of the filter l with another value
Disagrees(f, l) == \E k \in DOMAIN l : k \in DOMAIN f.Labels /\ f.Labels[k] # l[k]

\* the diagnostics of an evaluation that ended before ShouldSkip had the features
SkipErrors == {"plan decode", "failed to add harness",
               "failed to get features from harness"}

\* ShouldSkip returned true for r: it then adds the skip warning (lines 137-141)
Skipped(r) == diags[r].warnings # {}

\* C1: once Create has evaluated ShouldSkip with the features in hand, the
\* harness is skipped if and only if the runtime label filter is non-empty
\* and some registered feature carries a key of the filter with a different
\* value; a feature lacking the key does not count, and one disagreeing
\* feature suffices whatever the others say.
C1_ShouldSkipIffDisagreement ==
    \A r \in Resources :
        (pc[r] # "idle" /\ diags[r].errors \cap SkipErrors = {}) =>
            /\ Skipped(r) <=>
                  (/\ DOMAIN labels # {}
                   /\ \E i \in 1..Len(Feats(r)) : Disagrees(Feats(r)[i], labels))
            /\ state[r] # Nil => (state[r].Skipped <=> Skipped(r))

\* a skipped harness with one feature agreeing on every key of the filter and
\* one disagreeing feature that also lacks a key of the filter
C1_Witness ==
    /\ pc["r1"] = "done"
    /\ Skipped("r1")
    /\ \E i, j \in 1..Len(Feats("r1")) :
          /\ DOMAIN labels \subseteq DOMAIN Feats("r1")[i].Labels
          /\ ~Disagrees(Feats("r1")[i], labels)
          /\ Disagrees(Feats("r1")[j], labels)
          /\ \E k \in DOMAIN labels : k \notin DOMAIN Feats("r1")[j].Labels

\* C2: with an empty runtime label filter no harness is skipped, whatever
\* features are registered: no skip warning is emitted and no state with
\* skipped=true is persisted.
C2_EmptyFilterNeverSkips ==
    DOMAIN labels = {} =>
        \A r \in Resources :
            /\ ~Skipped(r)
            /\ state[r] # Nil => ~state[r].Skipped

\* a harness with labelled features created under the empty filter
C2_Witness ==
    /\ DOMAIN labels = {}
    /\ state["r1"] # Nil
    /\ Len(Feats("r1")) = 2
    /\ \A i \in 1..2 : DOMAIN Feats("r1")[i].Labels # {}

\* C3: a Create that evaluates the harness as skipped emits the warning and no
\* error, persists the state with skipped=true and does nothing else: no
\* options are assembled, no handle of this evaluation is in the Runtime
\* Registry and Setup is not invoked for it.  No other evaluation persists
\* skipped=true.
C3_SkippedCreateStops ==
    \A r \in Resources :
        /\ Skipped(r) =>
              /\ pc[r] = "done"
              /\ diags[r].errors = {}
              /\ state[r] # Nil /\ state[r].Skipped /\ state[r].Id = planned[r]
              /\ frame[r] = Nil
              /\ \A id \in DOMAIN harnesses : harnesses[id].owner # r
              /\ \A h \in setups : h.owner # r
        /\ (state[r] # Nil /\ state[r].Skipped) => Skipped(r)

\* r1 was skipped while r2, with the same identifier, went on to Setup
C3_Witness ==
    /\ Skipped("r1")
    /\ state["r1"] # Nil
    /\ planned["r2"] = planned["r1"]
    /\ pc["r2"] = "setup"

\* the Setup of r's Create returned an error or ran into the deadline
SetupFailed(r) ==
    pc[r] = "done" /\ frame[r] # Nil /\ frame[r].setup \in {"failed", "expired"}

SetupDiags == {"failed to setup harness: context deadline exceeded",
               "failed to setup harness: setup error"}

\* C4: the deadline of Setup is the configured create timeout, 5 minutes when
\* none is configured.  When Setup returns an error or the deadline expires,
\* Create reports the error, persists no state and removes nothing: Get for
\* the harness id still finds a handle, the one this Create stored unless
\* another Create for the same id has stored its own since.
C4_FailedSetupKeepsHandle ==
    \A r \in Resources :
        /\ (frame[r] # Nil /\ cfg[r].Timeouts = NullStr) =>
              frame[r].timeout = defaultHarnessK3sCreateTimeout
        /\ SetupFailed(r) =>
              /\ diags[r].errors \cap SetupDiags # {}
              /\ state[r] = Nil
              /\ frame[r].harness \in setups
              /\ LET got == RegistryGet(harnesses, frame[r].harness.id)
                 IN  /\ got.ok
                     /\ \/ got.harness = frame[r].harness
                        \/ \E q \in Resources \ {r} :
                              frame[q] # Nil /\ got.harness = frame[q].harness

\* the default deadline expired for r1 and Get still returns r1's handle
C4_Witness ==
    /\ SetupFailed("r1")
    /\ frame["r1"].setup = "expired"
    /\ cfg["r1"].Timeouts = NullStr
    /\ RegistryGet(harnesses, planned["r1"]).harness = frame["r1"].harness

\* the identifier ModifyPlan computes for resource r, and its inventory
IdOf(r) == HarnessId(cfg[r].Name, Encode(cfg[r].Inventory.Seed))
SeedOf(r) == cfg[r].Inventory.Seed
SameHarness(r) == {q \in Resources : IdOf(q) = IdOf(r) /\ SeedOf(q) = SeedOf(r)}

RECURSIVE SumOver(_, _)
SumOver(S, f) ==
    IF S = {} THEN 0
    ELSE LET x == CHOOSE y \in S : TRUE IN f[x] + SumOver(S \ {x}, f)

AddedReports(r) == SumOver(SameHarness(r), [q \in Resources |-> adds[q].added])
PresentReports(r) == SumOver(SameHarness(r), [q \in Resources |-> adds[q].present])

\* C5: however the plan evaluations that call AddHarness for one identifier
\* interleave, exactly one of the completed calls has reported added=true and
\* all the others added=false, and the identifier is in the Inventory.
C5_ExactlyOneAdded ==
    \A r \in Resources :
        /\ AddedReports(r) <= 1
        /\ (AddedReports(r) + PresentReports(r) >= 1) =>
              /\ AddedReports(r) = 1
              /\ IdOf(r) \in DOMAIN inventory[SeedOf(r)]
        /\ IdOf(r) \in DOMAIN inventory[SeedOf(r)] => AddedReports(r) = 1

\* four completed calls for one identifier, from both resource instances
C5_Witness ==
    /\ IdOf("r1") = IdOf("r2")
    /\ adds["r1"].added + adds["r1"].present = 2
    /\ adds["r2"].added + adds["r2"].present = 2

\* C6: a completed AddHarness call reports added=true exactly when the
\* identifier was absent, and inserts it; a call for an identifier already
\* present reports added=false without an error and leaves the Inventory, and
\* so what GetFeatures returns, as it was.  Identifiers are never removed.
C6_AddHarnessIdempotent ==
    [][\A r \in Resources :
          /\ adds'[r] # adds[r] =>
                IF IdOf(r) \in DOMAIN inventory[SeedOf(r)]
                THEN /\ adds'[r] = [adds[r] EXCEPT !.present = @ + 1]
                     /\ planDiags'[r] = {}
                     /\ inventory' = inventory
                     /\ GetFeatures(inventory', SeedOf(r), IdOf(r))
                          = GetFeatures(inventory, SeedOf(r), IdOf(r))
                ELSE /\ adds'[r] = [adds[r] EXCEPT !.added = @ + 1]
                     /\ IdOf(r) \in DOMAIN inventory'[SeedOf(r)]
          /\ IdOf(r) \in DOMAIN inventory[SeedOf(r)] =>
                IdOf(r) \in DOMAIN inventory'[SeedOf(r)]]_vars

\* r1 called AddHarness twice and its harness has a feature registered
C6_Witness ==
    /\ adds["r1"] = [added |-> 1, present |-> 1]
    /\ Len(Feats("r1")) >= 1

\* every identifier a harness can have
AllIds == {HarnessId(n, Encode(s)) : n \in Names, s \in Seeds}

\* the step in which a Create Sets (id, h), and every other step
C7_SetStep ==
    \A r \in Resources :
        (frame[r] = Nil /\ frame'[r] # Nil) =>
            /\ RegistryGet(harnesses', frame'[r].harness.id)
                 = [ok |-> TRUE, harness |-> frame'[r].harness]
            /\ \A id \in AllIds \ {frame'[r].harness.id} :
                  RegistryGet(harnesses', id) = RegistryGet(harnesses, id)

C7_OtherStep ==
    (\A r \in Resources : (frame[r] = Nil) = (frame'[r] = Nil)) =>
        harnesses' = harnesses

\* C7: Get finds an identifier exactly when some Create has Set it; the step
\* in which a Create Sets (id, h) makes Get(id) return h, also when another
\* handle was stored under id before, and leaves Get unchanged for every other
\* identifier; no other step changes the registry.
C7_RegistryLastWriterWins ==
    /\ [](\A id \in AllIds :
            RegistryGet(harnesses, id).ok
              <=> \E r \in Resources : frame[r] # Nil /\ frame[r].harness.id = id)
    /\ [][C7_SetStep /\ C7_OtherStep]_vars

\* r1 stored its handle first, r2 then stored its own under the same id
C7_Witness ==
    /\ frame["r1"] # Nil /\ frame["r2"] # Nil
    /\ frame["r1"].harness.id = frame["r2"].harness.id
    /\ RegistryGet(harnesses, frame["r1"].harness.id).harness = frame["r2"].harness

\* the provider-global registries and network names (none without a k3s block)
GlobalRegistries ==
    IF provider.Harnesses = Nil THEN EmptyMap
    ELSE IF provider.Harnesses.K3s = Nil THEN EmptyMap
    ELSE provider.Harnesses.K3s.Registries
GlobalNetworks ==
    IF provider.Harnesses = Nil THEN <<>>
    ELSE IF provider.Harnesses.K3s = Nil THEN <<>>
    ELSE [i \in 1..Len(provider.Harnesses.K3s.Networks) |->
            provider.Harnesses.K3s.Networks[i].Name]

\* C8: the registries map Create works with has exactly the resource-declared
\* and the provider-global keys; a provider-global key carries the
\* provider-global entry, every other key the resource-declared entry.
C8_RegistryMerge ==
    \A r \in Resources :
        frame[r] # Nil =>
            LET m == frame[r].registries
                own == cfg[r].Registries
            IN  /\ DOMAIN m = KeysOf(own) \cup DOMAIN GlobalRegistries
                /\ \A k \in DOMAIN GlobalRegistries : m[k] = GlobalRegistries[k]
                /\ \A k \in KeysOf(own) \ DOMAIN GlobalRegistries : m[k] = own[k]

\* registry a is declared on both sides with different entries, b by the
\* resource only
C8_Witness ==
    /\ frame["r1"] # Nil
    /\ KeysOf(cfg["r1"].Registries) = {"a", "b"}
    /\ DOMAIN GlobalRegistries = {"a"}
    /\ GlobalRegistries["a"] # cfg["r1"].Registries["a"]

\* the list handed to k3s.WithNetworks, the last option of the handle
PassedNetworks(r) ==
    frame[r].harness.kopts[Len(frame[r].harness.kopts)].networks

\* C9: the network list passed to the harness is the resource-declared names
\* (in the order the map was visited) followed by the provider-global names in
\* declared order; its length is the sum of both and nothing is deduplicated.
C9_NetworksAppended ==
    \A r \in Resources :
        frame[r] # Nil =>
            LET nets == PassedNetworks(r)
                own == cfg[r].Networks
                n == Cardinality(KeysOf(own))
            IN  /\ frame[r].harness.kopts[Len(frame[r].harness.kopts)].opt = "WithNetworks"
                /\ Len(nets) = n + Len(GlobalNetworks)
                /\ \E o \in Orders(KeysOf(own)) :
                      \A i \in 1..n : nets[i] = own[o[i]].Name
                /\ \A i \in 1..Len(GlobalNetworks) : nets[n + i] = GlobalNetworks[i]

\* n1 is declared by the resource and by the provider and is passed twice
C9_Witness ==
    /\ frame["r1"] # Nil
    /\ KeysOf(cfg["r1"].Networks) = {"x", "y"}
    /\ GlobalNetworks = <<"n2", "n1">>
    /\ Cardinality({i \in 1..Len(PassedNetworks("r1")) :
                       PassedNetworks("r1")[i] = "n1"}) = 2

\* the auth options of the handle of r that are keyed by registry k
IsAuthOption(o) == o.opt \in {"WithAuthFromKeychain", "WithAuthFromStatic"}
AuthOptionsFor(r, k) ==
    SelectSeq(frame[r].harness.kopts, LAMBDA o : IsAuthOption(o) /\ o.registry = k)

\* C10: for every registry of the merged map the handle gets no auth option
\* when the registry has no Auth block, exactly one keychain option keyed by
\* the registry name when username, password and auth-string are all unset,
\* and otherwise exactly one static option with the three fields as given
\* (an unset field as the empty string); no other auth option is produced.
C10_AuthResolution ==
    \A r \in Resources :
        frame[r] # Nil =>
            /\ \A k \in DOMAIN frame[r].registries :
                  LET a == frame[r].registries[k].Auth
                      opts == AuthOptionsFor(r, k)
                  IN  IF a = Nil THEN opts = <<>>
                      ELSE IF a.Username = NullStr /\ a.Password = NullStr
                              /\ a.Auth = NullStr
                      THEN opts = <<[opt |-> "WithAuthFromKeychain", registry |-> k]>>
                      ELSE opts = <<[opt |-> "WithAuthFromStatic", registry |-> k,
                                     username |-> IF a.Username = NullStr THEN ""
                                                  ELSE a.Username,
                                     password |-> IF a.Password = NullStr THEN ""
                                                  ELSE a.Password,
                                     auth |-> IF a.Auth = NullStr THEN "" ELSE a.Auth]>>
            /\ \A i \in 1..Len(frame[r].harness.kopts) :
                  IsAuthOption(frame[r].harness.kopts[i]) =>
                      frame[r].harness.kopts[i].registry \in DOMAIN frame[r].registries

\* one registry resolved through the keychain and one with only some of the
\* three fields set
C10_Witness ==
    /\ frame["r1"] # Nil
    /\ \E k, j \in DOMAIN frame["r1"].registries :
          /\ frame["r1"].registries[k].Auth = NullAuth
          /\ Len(AuthOptionsFor("r1", k)) = 1
          /\ frame["r1"].registries[j].Auth # Nil
          /\ frame["r1"].registries[j].Auth # NullAuth
          /\ frame["r1"].registries[j].Auth.Password = NullStr
          /\ Len(AuthOptionsFor("r1", j)) = 1

\* C11: the identifier in the planned state is the name, a dash and the
\* encoding of the inventory seed, whatever number of times the resource has
\* been planned; two resources with the same name and seed plan the same
\* identifier, and two resources with the same name whose seeds encode
\* differently plan different identifiers.
C11_IdIsFunctionOfNameAndSeed ==
    \A r \in Resources :
        planned[r] # NullStr =>
            /\ planned[r] = cfg[r].Name \o "-" \o Encode(cfg[r].Inventory.Seed)
            /\ \A q \in Resources :
                  planned[q] # NullStr =>
                      /\ (cfg[q].Name = cfg[r].Name
                            /\ cfg[q].Inventory.Seed = cfg[r].Inventory.Seed)
                         => planned[q] = planned[r]
                      /\ (cfg[q].Name = cfg[r].Name
                            /\ Encode(cfg[q].Inventory.Seed) # Encode(cfg[r].Inventory.Seed))
                         => planned[q] # planned[r]

\* r1 has been planned twice; r2 has the same name in another inventory
C11_Witness ==
    /\ adds["r1"].added + adds["r1"].present = 2
    /\ planned["r2"] # NullStr
    /\ cfg["r2"].Name = cfg["r1"].Name
    /\ cfg["r2"].Inventory.Seed # cfg["r1"].Inventory.Seed
    /\ planned["r2"] # planned["r1"]

\* the step in which ModifyPlan runs on the prior state of some resource
C12_ReplanStep ==
    \A r \in Resources :
        ("ModifyPlan" \in lifecycle'[r]) # ("ModifyPlan" \in lifecycle[r]) =>
            /\ state[r] # Nil
            /\ planned' = planned
            /\ adds' = adds
            /\ inventory' = inventory
            /\ harnesses' = harnesses
            /\ state' = state
            /\ planDiags'[r] = {}

\* no step changes the plan outputs of a resource that has a state
C12_PriorStateStep ==
    \A r \in Resources :
        state[r] # Nil =>
            /\ planned'[r] = planned[r]
            /\ adds'[r] = adds[r]
            /\ planDiags'[r] = {}

\* C12: a ModifyPlan for a resource that already has a state changes nothing:
\* the planned identifier stays as it was, AddHarness is not called (no call is
\* counted), the Inventory, the Runtime Registry and the state are unchanged
\* and the response carries no diagnostic.
C12_ReplanShortCircuits ==
    [][C12_ReplanStep /\ C12_PriorStateStep]_vars

\* r1 was created and then planned again while its harness had a feature
C12_Witness ==
    /\ "ModifyPlan" \in lifecycle["r1"]
    /\ state["r1"] # Nil
    /\ ~state["r1"].Skipped
    /\ adds["r1"].added + adds["r1"].present < MaxPlans
    /\ Len(GetFeatures(inventory, cfg["r1"].Inventory.Seed, planned["r1"])) = 1

\* the handle of r's evaluation is in the Runtime Registry, or Setup has been
\* invoked on it
HandleStored(r) == \E id \in DOMAIN harnesses : harnesses[id].owner = r
SetupInvoked(r) == \E h \in setups : h.owner = r

\* C13: once a Create has recorded an error diagnostic, no later step of it
\* runs: an error recorded before the handle is stored (plan decoding, skip
\* evaluation, the create timeout, input decoding, handle construction) leaves
\* no handle of the evaluation in the Runtime Registry and no Setup invoked,
\* and no evaluation that recorded an error persists a state.
C13_ErrorsHaltCreate ==
    \A r \in Resources :
        /\ diags[r].errors \ SetupDiags # {} =>
              /\ frame[r] = Nil
              /\ ~HandleStored(r)
              /\ ~SetupInvoked(r)
        /\ diags[r].errors # {} => state[r] = Nil

\* --------------------------------------- input-validation runs (SpecInput)
\* r1 has been planned with a configuration that is valid or carries one
\* invalid input, under a provider whose global registries may carry one too
InputConfigs ==
    {[BaseConfig EXCEPT !.Sandbox = BaseSandbox],
     [BaseConfig EXCEPT !.Image = "not a reference"],
     [BaseConfig EXCEPT !.Sandbox = [BaseSandbox EXCEPT !.Image = "also:not:a:reference"]],
     [BaseConfig EXCEPT !.Sandbox = [BaseSandbox EXCEPT !.Envs = [e \in {"E"} |-> NullStr]]],
     [BaseConfig EXCEPT !.Sandbox = BaseSandbox,
                        !.Registries = [k \in {"a"} |-> [Auth |-> Nil, Mirror |-> BadMirror]]]}

InputProviders ==
    {NoProvider, MainProvider,
     [Harnesses |-> [K3s |->
        [Registries |-> [k \in {"b"} |-> [Auth |-> Nil, Mirror |-> BadMirror]],
         Networks |-> <<>>]]]}

InputInit ==
    \E c \in InputConfigs, p \in InputProviders, l \in MainLabels,
       feats \in {<<>>} \cup {<<f>> : f \in MainFeatures} :
        PlannedR1(c, l, p, feats)

SpecInput == InputInit /\ [][CreateNext]_vars

\* the diagnostics Create reports for an invalid input
InputErrors == {"invalid resource input", "failed to convert mirror endpoints"}

\* a list or map holds an element that cannot be decoded into a Go string
Undecodable(elems) == \E i \in DOMAIN elems : elems[i] = NullStr

\* the planned data of r carries a malformed image reference, an undecodable
\* env map or an undecodable mirror endpoint list
InvalidReference(s) == s # NullStr /\ s \notin ValidRefs
InvalidInput(r) ==
    \/ InvalidReference(cfg[r].Image)
    \/ /\ cfg[r].Sandbox # Nil
       /\ InvalidReference(cfg[r].Sandbox.Image) \/ Undecodable(cfg[r].Sandbox.Envs)
    \/ \E k \in KeysOf(cfg[r].Registries) \ DOMAIN GlobalRegistries :
          /\ cfg[r].Registries[k].Mirror # Nil
          /\ Undecodable(cfg[r].Registries[k].Mirror.Endpoints)
    \/ \E k \in DOMAIN GlobalRegistries :
          /\ GlobalRegistries[k].Mirror # Nil
          /\ Undecodable(GlobalRegistries[k].Mirror.Endpoints)

\* C14: a Create that reports an input validation error has persisted no
\* state, stored no handle of its own in the Runtime Registry and invoked no
\* Setup; and a non-skipped Create of invalid input that got past the plan
\* decoding, the skip evaluation and the sandbox decoding reports such an error.
C14_InvalidInputAborts ==
    \A r \in Resources :
        /\ diags[r].errors \cap InputErrors # {} =>
              /\ pc[r] = "done"
              /\ state[r] = Nil
              /\ frame[r] = Nil
              /\ ~HandleStored(r)
              /\ ~SetupInvoked(r)
        /\ (/\ pc[r] # "idle"
            /\ InvalidInput(r)
            /\ ~Skipped(r)
            /\ diags[r].errors \cap (SkipErrors \cup {"sandbox decode"}) = {})
           => diags[r].errors \cap InputErrors # {}

\* the mirror endpoints of a resource-declared registry could not be decoded,
\* after the sandbox options had been assembled without an error
C14_Witness ==
    /\ pc["r1"] = "done"
    /\ diags["r1"].errors = {"failed to convert mirror endpoints"}
    /\ cfg["r1"].Sandbox # Nil
    /\ cfg["r1"].Registries # Nil
    /\ state["r1"] = Nil

\* C15: the plan of a resource carries the identifier only when AddHarness
\* succeeded: a plan with the identifier and no error belongs to a harness
\* registered in the Inventory, and a plan whose AddHarness failed with a
\* backing-store error carries the error and no identifier.
C15_IdPersistedOnSuccess ==
    \A r \in Resources :
        /\ (planned[r] # NullStr /\ planDiags[r] = {}) =>
              planned[r] \in DOMAIN inventory[cfg[r].Inventory.Seed]
        /\ AddHarnessError \in planDiags[r] => planned[r] = NullStr

GetFeaturesError == "failed to get features from harness"

\* C16: a Create in which GetFeatures failed reports the error and stops,
\* under the empty filter as under any other: it emits no skip warning,
\* persists no state (neither skipped nor created), stores no handle of its
\* own in the Runtime Registry and invokes no Setup.
C16_GetFeaturesErrorAborts ==
    \A r \in Resources :
        GetFeaturesError \in diags[r].errors =>
            /\ pc[r] = "done"
            /\ diags[r].errors = {GetFeaturesError}
            /\ ~Skipped(r)
            /\ state[r] = Nil
            /\ frame[r] = Nil
            /\ ~HandleStored(r)
            /\ ~SetupInvoked(r)

\* GetFeatures failed under the empty filter for a harness with features
C16_Witness ==
    /\ DOMAIN labels = {}
    /\ GetFeaturesError \in diags["r1"].errors
    /\ Len(inventory["s1"][planned["r1"]]) = 2

\* Setup has been invoked by r's Create and is running or has returned
SetupStarted(r) == pc[r] = "setup" \/ (pc[r] = "done" /\ frame[r] # Nil)

\* C17: a non-skipped Create assembles the options, constructs the handle
\* from them, stores it in the Runtime Registry and only then invokes Setup:
\* while the handle is stored and Setup not yet invoked, the handle carries
\* the assembled options and Get finds it; Setup is invoked only on handles
\* constructed by a Create, and whenever Setup is running or has returned for
\* an identifier, Get for that identifier finds a handle.
C17_SetBeforeSetup ==
    /\ \A r \in Resources :
          /\ pc[r] = "stored" =>
                /\ frame[r] # Nil
                /\ ~SetupInvoked(r)
                /\ frame[r].harness.kopts[Len(frame[r].harness.kopts)]
                     = [opt |-> "WithNetworks", networks |-> frame[r].networks]
                /\ RegistryGet(harnesses, frame[r].harness.id).ok
          /\ SetupStarted(r) =>
                /\ frame[r].harness \in setups
                /\ RegistryGet(harnesses, frame[r].harness.id).ok
          /\ SetupInvoked(r) => SetupStarted(r)
    /\ \A h \in setups :
          /\ RegistryGet(harnesses, h.id).ok
          /\ \E r \in Resources : frame[r] # Nil /\ frame[r].harness = h

\* Setup is running for r1 while the Setup of r2, another harness, has returned
C17_Witness ==
    /\ pc["r1"] = "setup"
    /\ pc["r2"] = "done" /\ frame["r2"] # Nil /\ frame["r2"].setup = "ok"
    /\ frame["r1"].harness.id # frame["r2"].harness.id
    /\ RegistryGet(harnesses, frame["r1"].harness.id).harness = frame["r1"].harness

\* ------------------------------------------- lifecycle runs (SpecLifecycle)
\* the life of one resource: r1 has been planned; it is planned again, created
\* or skipped, and then read, updated, planned again and deleted in any order
LifecycleInit ==
    \E c \in {ValidProfile, [BaseConfig EXCEPT !.Sandbox = BaseSandbox]},
       l \in MainLabels, feats \in {<<>>} \cup {<<f>> : f \in MainFeatures} :
        PlannedR1(c, l, MainProvider, feats)

LifecycleNext ==
    \/ ModifyPlan("r1")
    \/ Create("r1")
    \/ InvokeSetup("r1")
    \/ SetupReturn("r1")
    \/ Read("r1")
    \/ Update("r1")
    \/ Delete("r1")

SpecLifecycle == LifecycleInit /\ [][LifecycleNext]_vars

\* the step is a call of handler h on the prior state of r
Ran(h, r) == (h \in lifecycle'[r]) # (h \in lifecycle[r])

\* a call of Read, Update or Delete leaves the Inventory and the Runtime
\* Registry as they were and invokes no Setup; Read and Update keep the
\* persisted identifier and skipped flag
C18_HandlerStep ==
    \A r \in Resources :
        /\ (Ran("Read", r) \/ Ran("Update", r) \/ Ran("Delete", r)) =>
              /\ inventory' = inventory
              /\ harnesses' = harnesses
              /\ setups' = setups
              /\ frame' = frame
        /\ (Ran("Read", r) \/ Ran("Update", r)) =>
              /\ state'[r] # Nil
              /\ state'[r].Id = state[r].Id
              /\ state'[r].Skipped = state[r].Skipped

\* nothing is ever removed from the Inventory or the Runtime Registry
C18_OnlyAccumulate ==
    /\ \A s \in Seeds : \A id \in DOMAIN inventory[s] :
          /\ id \in DOMAIN inventory'[s]
          /\ Len(inventory[s][id]) <= Len(inventory'[s][id])
    /\ DOMAIN harnesses \subseteq DOMAIN harnesses'
    /\ setups \subseteq setups'

\* C18: across any sequence of Read, Update and Delete calls the Inventory
\* and the Runtime Registry are unchanged and no Setup or teardown is invoked,
\* Read and Update do not change the persisted identifier or skipped flag,
\* and no step of any handler ever removes an entry from the Inventory or the
\* Runtime Registry.
C18_LifecyclePassThrough ==
    [][C18_HandlerStep /\ C18_OnlyAccumulate]_vars

\* C19: the state a successful non-skipped Create persists is the planned
\* data with only the skipped flag written (false); in particular its
\* registries are the resource-declared ones, untouched by the merge with the
\* provider-global registries.
C19_PersistedDataIsPlan ==
    \A r \in Resources :
        (state[r] # Nil /\ ~state[r].Skipped) =>
            /\ state[r] = [PlanData(cfg[r], planned[r]) EXCEPT !.Skipped = FALSE]
            /\ state[r].Registries = cfg[r].Registries

\* C20: every identifier that has a handle in the Runtime Registry is the
\* identifier of the resource whose Create stored the handle and is registered
\* in the Inventory of that resource's seed.
C20_HandlesAreDeclared ==
    \A id \in DOMAIN harnesses :
        LET r == harnesses[id].owner
        IN  /\ id = cfg[r].Name \o "-" \o Encode(cfg[r].Inventory.Seed)
            /\ id \in DOMAIN inventory[cfg[r].Inventory.Seed]

\* handles of the same harness name in two inventories, each registered in
\* its own inventory only
C20_Witness ==
    /\ Cardinality(DOMAIN harnesses) = 2
    /\ cfg["r1"].Name = cfg["r2"].Name
    /\ \A id \in DOMAIN harnesses :
          Cardinality({s \in Seeds : id \in DOMAIN inventory[s]}) = 1

====
